---- MODULE Spec2Model ----
(***************************************************************************)
(* State-machine model of the rust_chess rules core: Board (board.rs) and  *)
(* Position with its move validator (position.rs).                         *)
(*                                                                         *)
(* position.rs names the two fields of Coord `rank` and `file`, board.rs   *)
(* names them `row` and `col`.  rank is the row (position.rs:217 tests     *)
(* coord.rank against 0 | 7 for "pawns on first rank") and file is the     *)
(* column.  A Coord is modelled as the pair <<row, col>>.                  *)
(***************************************************************************)
EXTENDS Integers, Sequences, FiniteSets, TLC

VARIABLES board, to_play, castle_rights, state, last

vars == <<board, to_play, castle_rights, state, last>>

----
(* Bounds and program constants *)

\* Largest coordinate component offered as an input (above 7: out of range).
MaxIndex == 8

\* Largest number of items taken from one board iterator
MaxYield == 10

\* Largest size of a small path increment offered as an input (the extreme
\* i8 values are always offered)
MaxStep == 2

BoardSize == 8
U8 == 256
KingX == 4

Idx == 0 .. (BoardSize - 1)
Coords == Idx \X Idx

Colors == {"White", "Black"}
Pieces == {"Pawn", "Knight", "Bishop", "Queen", "Rook", "King"}
CastleSides == {"King", "Queen"}

Empty == [piece |-> "None", color |-> "None"]
Sq(p, c) == [piece |-> p, color |-> c]

Rights(k, q) == [king |-> k, queen |-> q]
AllRights == {Rights(k, q) : k \in BOOLEAN, q \in BOOLEAN}

----
(* board.rs *)

make(row, col) == <<row, col>>

rank(coord) == coord[1]
file(coord) == coord[2]

\* usize indexing of [[Square; 8]; 8]
InRange(coord) == coord[1] \in Idx /\ coord[2] \in Idx

\* u8::wrapping_add_signed
wrapping_add_signed(x, d) == (x + d + U8) % U8

\* Board::square: None for a coordinate outside the array
square(b, coord) ==
    IF InRange(coord) THEN [some |-> TRUE, val |-> b[coord]]
                      ELSE [some |-> FALSE, val |-> Empty]

square_unchecked(b, coord) == b[coord]

\* Board::move_unchecked: the target is read after the origin was emptied
move_unchecked(b, origin_coord, target_coord) ==
    LET origin_square == b[origin_coord]
        b1 == [b EXCEPT ![origin_coord] = Empty]
        target_square == b1[target_coord]
        b2 == [b1 EXCEPT ![target_coord] = origin_square]
    IN  [board |-> b2, origin_square |-> origin_square,
         target_square |-> target_square]

\* path_step that wraps at the edge of the board instead of at the u8 range
path_step_on_board(coord, increment) ==
    <<(coord[1] + increment[1] + U8) % BoardSize,
      (coord[2] + increment[2] + U8) % BoardSize>>

\* BoardPathIter::next: the coordinate stored for the following call
path_step(coord, increment) ==
    <<wrapping_add_signed(coord[1], increment[1]),
      wrapping_add_signed(coord[2], increment[2])>>

----
(* square accessors *)

piece_kind(sq) == sq.piece
player(sq) == sq.color

----
(* position.rs: move validation *)

\* `as i8` of a u8 value
as_i8(v) == IF v >= 128 THEN v - U8 ELSE v
\* u8 subtraction, wrapped, then cast to i8
sub_as_i8(a, b) == as_i8((a - b + U8) % U8)
abs(x) == IF x < 0 THEN -x ELSE x
signum(x) == IF x < 0 THEN -1 ELSE IF x > 0 THEN 1 ELSE 0

pawn_direction(color) == IF color = "White" THEN 1 ELSE -1
rank_2nd(color) == IF color = "White" THEN 1 ELSE 6
first_row_y(color) == IF color = "White" THEN 0 ELSE 7

\* move_shape: dy is taken from the files and dx from the ranks
move_shape(piece, color, origin_coord, target_coord) ==
    LET dy == sub_as_i8(file(target_coord), file(origin_coord))
        dx == sub_as_i8(rank(target_coord), rank(origin_coord))
        direction == pawn_direction(color)
    IN  CASE piece = "Pawn" /\ dy = direction /\ dx = 0 -> "OnlyMove"
          [] piece = "Pawn" /\ rank(origin_coord) = rank_2nd(color)
                /\ dy = direction * 2 /\ dx = 0 -> "OnlyMove"
          [] piece = "Pawn" /\ dy = direction /\ abs(dx) = 1 -> "MoveAndAttack"
          [] piece = "Rook" /\ dx * dy = 0 -> "MoveAndAttack"
          [] piece = "King" /\ abs(dx) <= 1 /\ abs(dy) <= 1 -> "MoveAndAttack"
          [] piece = "Queen" /\ (dx * dy = 0 \/ abs(dx) = abs(dy)) -> "MoveAndAttack"
          [] piece = "Knight" /\ abs(dx) * abs(dy) = 2 -> "MoveAndAttack"
          [] piece = "Bishop" /\ abs(dx) = abs(dy) -> "MoveAndAttack"
          [] OTHER -> "NoMove"

\* the skip(1).take_while(..).all(..) chain of is_path_clear, from `coord` on
RECURSIVE path_all_empty(_, _, _, _)
path_all_empty(b, coord, increment, target_coord) ==
    IF ~InRange(coord) THEN TRUE
    ELSE IF ~(file(coord) # file(target_coord) /\ rank(coord) # rank(target_coord))
         THEN TRUE
    ELSE IF b[coord] # Empty THEN FALSE
    ELSE path_all_empty(b, path_step(coord, increment), increment, target_coord)

\* is_path_clear: the increment is (file delta, rank delta), applied by the
\* path iterator to (row, col)
is_path_clear(b, origin_coord, target_coord) ==
    LET increment == <<signum(file(target_coord) - file(origin_coord)),
                       signum(rank(target_coord) - rank(origin_coord))>>
    IN  path_all_empty(b, path_step(origin_coord, increment), increment,
                       target_coord)

MoveOk(o, t, shape) ==
    [ok |-> TRUE, err |-> "None", origin_square |-> o, target_square |-> t,
     shape |-> shape]
MoveErr(e) ==
    [ok |-> FALSE, err |-> e, origin_square |-> Empty, target_square |-> Empty,
     shape |-> "NoMove"]

can_move(b, plr, origin_coord, target_coord) ==
    LET origin == square(b, origin_coord)
        target == square(b, target_coord)
        origin_square == origin.val
        target_square == target.val
        shape == move_shape(origin_square.piece, origin_square.color,
                            origin_coord, target_coord)
    IN  IF ~origin.some THEN MoveErr("InvalidCoord")
        ELSE IF ~target.some THEN MoveErr("InvalidCoord")
        ELSE IF origin_coord # target_coord THEN MoveErr("MoveToSameSquare")
        ELSE IF origin_square = Empty THEN MoveErr("OriginSquareEmpty")
        ELSE IF player(origin_square) # plr THEN MoveErr("DoesNotOwnOriginPiece")
        ELSE IF player(target_square) = plr THEN MoveErr("OwnsTargetPiece")
        ELSE IF shape = "NoMove" THEN MoveErr("InvalidMoveShape")
        ELSE IF shape = "OnlyMove" /\ target_square # Empty
             THEN MoveErr("InvalidMoveShape")
        ELSE IF ~is_path_clear(b, origin_coord, target_coord)
             THEN MoveErr("PathNotEmpty")
        ELSE MoveOk(origin_square, target_square, shape)

----
(* position.rs: Position *)

Position(b, tp, cr, st) ==
    [board |-> b, to_play |-> tp, castle_rights |-> cr, state |-> st]

Opposite(color) == IF color = "White" THEN "Black" ELSE "White"

can_move_piece(pos, origin_coord, target_coord) ==
    can_move(pos.board, pos.to_play, origin_coord, target_coord)

can_castle(pos, side) ==
    LET perm == IF side = "Queen" THEN pos.castle_rights[1].queen
                                  ELSE pos.castle_rights[1].king
    IN  IF ~perm THEN [ok |-> FALSE, err |-> "LackingPerms"]
                 ELSE [ok |-> TRUE, err |-> "None"]

\* next_turn that keeps the side to move
next_turn_no_flip(pos) ==
    [pos EXCEPT !.castle_rights = <<pos.castle_rights[2], pos.castle_rights[1]>>,
                !.state = "Playing"]

\* next_turn that keeps the rights pair in place
next_turn_no_swap(pos) ==
    [pos EXCEPT !.to_play = Opposite(pos.to_play), !.state = "Playing"]

\* next_turn that copies the second slot of the rights pair over the first
next_turn_copy(pos) ==
    [pos EXCEPT !.to_play = Opposite(pos.to_play),
                !.castle_rights = <<pos.castle_rights[2], pos.castle_rights[2]>>,
                !.state = "Playing"]

\* next_turn: flips the side to move, swaps the rights pair, state Playing
next_turn(pos) ==
    [pos EXCEPT !.to_play = Opposite(pos.to_play),
                !.castle_rights = <<pos.castle_rights[2], pos.castle_rights[1]>>,
                !.state = "Playing"]

\* the castling-permission match of try_move_piece (lines 94-112), on the
\* mover's rights
update_rights(rights, tp, origin_square, origin_coord) ==
    CASE piece_kind(origin_square) = "Rook"
            /\ origin_coord = make(first_row_y(tp), 0) ->
                [rights EXCEPT !.king = FALSE]
      [] piece_kind(origin_square) = "Rook"
            /\ origin_coord = make(first_row_y(tp), 7) ->
                [rights EXCEPT !.king = FALSE]
      [] piece_kind(origin_square) = "King" ->
                [rights EXCEPT !.king = FALSE, !.queen = FALSE]
      [] OTHER -> rights

\* try_move_piece after the validation: lines 92-114
apply_move(pos, origin_coord, target_coord) ==
    LET m == move_unchecked(pos.board, origin_coord, target_coord)
        r0 == update_rights(pos.castle_rights[1], pos.to_play,
                            m.origin_square, origin_coord)
        p1 == [pos EXCEPT !.board = m.board,
                          !.castle_rights = <<r0, pos.castle_rights[2]>>]
    IN  [pos |-> next_turn(p1), ok |-> TRUE, err |-> "None",
         origin_square |-> m.origin_square, target_square |-> m.target_square]

\* try_move_piece that moves on the board before it validates
try_move_piece_eager(pos, origin_coord, target_coord) ==
    LET c == can_move_piece(pos, origin_coord, target_coord)
        moved == IF InRange(origin_coord) /\ InRange(target_coord)
                 THEN [pos EXCEPT !.board =
                          move_unchecked(pos.board, origin_coord,
                                         target_coord).board]
                 ELSE pos
    IN  IF ~c.ok
        THEN [pos |-> moved, ok |-> FALSE, err |-> c.err,
              origin_square |-> Empty, target_square |-> Empty]
        ELSE apply_move(pos, origin_coord, target_coord)

try_move_piece(pos, origin_coord, target_coord) ==
    LET c == can_move_piece(pos, origin_coord, target_coord)
    IN  IF ~c.ok
        THEN [pos |-> pos, ok |-> FALSE, err |-> c.err,
              origin_square |-> Empty, target_square |-> Empty]
        ELSE apply_move(pos, origin_coord, target_coord)

try_castle(pos, side) ==
    LET c == can_castle(pos, side)
        row == first_row_y(pos.to_play)
        rook_x == IF side = "King" THEN 0 ELSE 7
        direction == IF side = "King" THEN -1 ELSE 1
        m1 == move_unchecked(pos.board, make(row, KingX),
                  make(row, wrapping_add_signed(KingX, direction * 2)))
        m2 == move_unchecked(m1.board, make(row, rook_x),
                  make(row, wrapping_add_signed(KingX, direction)))
    IN  IF ~c.ok THEN [pos |-> pos, ok |-> FALSE, err |-> c.err]
        ELSE [pos |-> next_turn([pos EXCEPT !.board = m2.board]),
              ok |-> TRUE, err |-> "None"]

----
(* Positions the game starts from.  position.rs has no constructor that    *)
(* returns a Position, so the initial positions are chosen here: valid     *)
(* boards (one king per colour, no pawn on rows 0 and 7, kings apart, no   *)
(* king attacked), with the mover's rights in the first slot of the pair   *)
(* and a right held only while king and rook stand on their home squares. *)

BackRow == <<"Rook", "Knight", "Bishop", "Queen", "King", "Bishop", "Knight", "Rook">>

StandardBoard ==
    [c \in Coords |->
        CASE c[1] = 0 -> Sq(BackRow[c[2] + 1], "White")
          [] c[1] = 1 -> Sq("Pawn", "White")
          [] c[1] = 6 -> Sq("Pawn", "Black")
          [] c[1] = 7 -> Sq(BackRow[c[2] + 1], "Black")
          [] OTHER -> Empty]

SparseBoard ==
    [c \in Coords |->
        CASE c = <<0, 4>> -> Sq("King", "White")
          [] c = <<0, 0>> -> Sq("Rook", "White")
          [] c = <<0, 7>> -> Sq("Rook", "White")
          [] c = <<1, 4>> -> Sq("Pawn", "White")
          [] c = <<7, 4>> -> Sq("King", "Black")
          [] c = <<7, 0>> -> Sq("Rook", "Black")
          [] c = <<7, 7>> -> Sq("Rook", "Black")
          [] c = <<7, 3>> -> Sq("Queen", "Black")
          [] OTHER -> Empty]

\* White's castle on the side of the column-7 rook leaves the lone Black king
\* on (0,0) attacked along row 0 with rows 0 and 1 covered
CornerBoard ==
    [c \in Coords |->
        CASE c = <<0, 4>> -> Sq("King", "White")
          [] c = <<0, 7>> -> Sq("Rook", "White")
          [] c = <<1, 7>> -> Sq("Rook", "White")
          [] c = <<0, 0>> -> Sq("King", "Black")
          [] OTHER -> Empty]

InitBoards == {StandardBoard, SparseBoard, CornerBoard}

RookX(side) == IF side = "King" THEN 0 ELSE 7

AtHome(b, color, side) ==
    /\ b[make(first_row_y(color), KingX)] = Sq("King", color)
    /\ b[make(first_row_y(color), RookX(side))] = Sq("Rook", color)

HomeRights(b, color) ==
    {r \in AllRights : /\ r.king => AtHome(b, color, "King")
                       /\ r.queen => AtHome(b, color, "Queen")}

NoOp ==
    [op |-> "none", origin |-> <<0, 0>>, target |-> <<0, 0>>, side |-> "None",
     player |-> "None", ok |-> FALSE, err |-> "None"]

Init ==
    /\ board \in InitBoards
    /\ to_play \in Colors
    /\ \E mine \in HomeRights(board, to_play),
          theirs \in HomeRights(board, Opposite(to_play)) :
            castle_rights = <<mine, theirs>>
    /\ state = "Playing"
    /\ last = NoOp

\* Coordinates offered to try_move_piece
InputCoords ==
    {<<0, 3>>, <<0, 4>>, <<1, 4>>, <<3, 4>>, <<7, 4>>}
    \cup {<<r, 0>> : r \in BoardSize .. MaxIndex}
    \cup {<<0, MaxIndex>>}

Pos == Position(board, to_play, castle_rights, state)

SetPos(p) ==
    /\ board' = p.board
    /\ to_play' = p.to_play
    /\ castle_rights' = p.castle_rights
    /\ state' = p.state

TryMovePiece(origin_coord, target_coord) ==
    LET r == try_move_piece(Pos, origin_coord, target_coord)
    IN  /\ SetPos(r.pos)
        /\ last' = [op |-> "move", origin |-> origin_coord,
                    target |-> target_coord, side |-> "None",
                    player |-> to_play, ok |-> r.ok, err |-> r.err]

TryCastle(side) ==
    LET r == try_castle(Pos, side)
    IN  /\ SetPos(r.pos)
        /\ last' = [op |-> "castle", origin |-> <<0, 0>>, target |-> <<0, 0>>,
                    side |-> side, player |-> to_play, ok |-> r.ok,
                    err |-> r.err]

Next ==
    \/ \E o \in InputCoords, t \in InputCoords : TryMovePiece(o, t)
    \/ \E s \in CastleSides : TryCastle(s)

Spec == Init /\ [][Next]_vars

----
(* The part of try_move_piece that follows the validation (lines 92-114),  *)
(* applied once to a move of one of the mover's pieces in a fresh position *)

ApplyMove(origin_coord, target_coord) ==
    /\ last = NoOp
    /\ player(board[origin_coord]) = to_play
    /\ origin_coord # target_coord
    /\ player(board[target_coord]) # to_play
    /\ LET r == apply_move(Pos, origin_coord, target_coord)
       IN  /\ SetPos(r.pos)
           /\ last' = [op |-> "apply", origin |-> origin_coord,
                       target |-> target_coord, side |-> "None",
                       player |-> to_play, ok |-> r.ok, err |-> r.err]

NextApply == \E o \in Coords, t \in InputCoords \cap Coords : ApplyMove(o, t)

SpecApply == Init /\ [][NextApply]_vars

TypeOK ==
    /\ board \in [Coords -> {Empty} \cup {Sq(p, c) : p \in Pieces, c \in Colors}]
    /\ to_play \in Colors
    /\ castle_rights \in AllRights \X AllRights
    /\ state = "Playing"

----
(* Vocabulary of the properties *)

\* The rights of a colour: the first slot of the pair is the mover's
RightsOf(color) ==
    IF color = to_play THEN castle_rights[1] ELSE castle_rights[2]

Kings(b, color) == {c \in Coords : b[c] = Sq("King", color)}

Max(a, b) == IF a >= b THEN a ELSE b

\* Squares strictly between p and k on the row, column or diagonal joining them
Between(p, k) ==
    LET dr == k[1] - p[1]
        dc == k[2] - p[2]
    IN  {<<p[1] + i * signum(dr), p[2] + i * signum(dc)>> :
            i \in 1 .. (Max(abs(dr), abs(dc)) - 1)}

\* Chess rule: the piece standing on p attacks the square k
Attacks(b, p, k) ==
    LET sq == b[p]
        dr == k[1] - p[1]
        dc == k[2] - p[2]
        straight == p # k /\ (dr = 0 \/ dc = 0)
        diagonal == p # k /\ abs(dr) = abs(dc)
        clear == \A x \in Between(p, k) : b[x] = Empty
    IN  CASE sq.piece = "Knight" -> abs(dr) * abs(dc) = 2
          [] sq.piece = "King" -> p # k /\ abs(dr) <= 1 /\ abs(dc) <= 1
          [] sq.piece = "Pawn" -> dr = pawn_direction(sq.color) /\ abs(dc) = 1
          [] sq.piece = "Rook" -> straight /\ clear
          [] sq.piece = "Bishop" -> diagonal /\ clear
          [] sq.piece = "Queen" -> (straight \/ diagonal) /\ clear
          [] OTHER -> FALSE

InCheck(b, color) ==
    \E k \in Kings(b, color) :
        \E p \in Coords : b[p].color = Opposite(color) /\ Attacks(b, p, k)

\* Chess rule: the move passes ownership, shape and path (validator steps 1-4)
PseudoLegal(b, plr, o, t) ==
    /\ InRange(o) /\ InRange(t) /\ o # t
    /\ b[o].color = plr
    /\ b[t].color # plr
    /\ IF b[o].piece = "Pawn"
       THEN \/ /\ t = <<o[1] + pawn_direction(plr), o[2]>>
               /\ b[t] = Empty
            \/ /\ o[1] = rank_2nd(plr)
               /\ t = <<o[1] + 2 * pawn_direction(plr), o[2]>>
               /\ b[<<o[1] + pawn_direction(plr), o[2]>>] = Empty
               /\ b[t] = Empty
            \/ /\ Attacks(b, o, t)
               /\ b[t] # Empty
       ELSE Attacks(b, o, t)

\* Squares strictly between the king and the rook that try_castle moves
CastlePath(color, side) ==
    Between(make(first_row_y(color), KingX), make(first_row_y(color), RookX(side)))

Rejected == last.op \in {"move", "castle"} /\ ~last.ok
Succeeded == last.op \in {"move", "castle"} /\ last.ok

----
(* Properties *)

\* C1: a rejected try_move_piece or try_castle leaves the board, the side to
\* move, the castling rights and the state as they were before the call.
ThmRejectedUnchanged ==
    [][Rejected' =>
        /\ board' = board
        /\ to_play' = to_play
        /\ castle_rights' = castle_rights
        /\ state' = state]_vars

WitRejectedMove ==
    /\ last.op = "move" /\ ~last.ok /\ last.err = "MoveToSameSquare"
    /\ board[last.origin].color = last.player
    /\ board[last.target] = Empty

\* C2: after every successful try_move_piece or try_castle the side to move
\* is the opposite colour of the side to move before the call.
ThmTurnAlternates ==
    [][Succeeded' => to_play' = Opposite(to_play)]_vars

WitTurnHandedOver ==
    last.op = "castle" /\ last.ok /\ to_play = Opposite(last.player)

\* C3: from a position with one king of each colour, every sequence of
\* successful moves and castles keeps exactly one king of each colour.
CexOneKingEach ==
    \A c \in Colors : Cardinality(Kings(board, c)) = 1

\* C4: for each colour and side, a castling right that is false stays false
\* after every move or castle attempt, successful or rejected.
ThmRightsMonotone ==
    [][\A c \in Colors :
        /\ ~RightsOf(c).king => ~RightsOf(c)'.king
        /\ ~RightsOf(c).queen => ~RightsOf(c)'.queen]_vars

WitRightStaysCleared ==
    /\ Succeeded
    /\ ~RightsOf(last.player).king
    /\ RightsOf(Opposite(last.player)).king

\* C5: after a successful try_castle by a colour, both castling rights of
\* that colour are false.
CexCastleClearsRights ==
    (last.op = "castle" /\ last.ok) =>
        RightsOf(last.player) = Rights(FALSE, FALSE)

\* C6: a successful move of the king clears both rights of the mover, a rook
\* leaving the mover's corner of a side clears exactly that side's right, any
\* other move changes no right, and the opponent's rights never change.
CexRightsUpdate ==
    [][last'.op = "apply" =>
        LET sq == board[last'.origin]
            row == first_row_y(to_play)
            before == castle_rights[1]
            expected ==
                IF sq.piece = "King" THEN Rights(FALSE, FALSE)
                ELSE IF sq.piece = "Rook" /\ last'.origin = <<row, RookX("King")>>
                     THEN [before EXCEPT !.king = FALSE]
                ELSE IF sq.piece = "Rook" /\ last'.origin = <<row, RookX("Queen")>>
                     THEN [before EXCEPT !.queen = FALSE]
                ELSE before
        IN  /\ castle_rights'[2] = expected
            /\ castle_rights'[1] = castle_rights[2]]_vars

\* C7: for in-range origin and destination, the validator answers
\* MoveToSameSquare if and only if origin and destination are equal.
CexSameSquareIff ==
    (last.op = "move" /\ InRange(last.origin) /\ InRange(last.target)) =>
        (last.err = "MoveToSameSquare" <=> last.origin = last.target)

\* C8: with White to move, a White pawn on row 1 moving two rows forward in
\* its column over empty squares succeeds, empties the origin, puts the pawn
\* on the destination and hands the turn to Black; a following attempt to
\* move a White piece is rejected with DoesNotOwnOriginPiece.
CexPawnDoubleStep ==
    [][/\ ( /\ last'.op = "move"
            /\ to_play = "White"
            /\ InRange(last'.origin) /\ InRange(last'.target)
            /\ board[last'.origin] = Sq("Pawn", "White")
            /\ last'.origin[1] = 1
            /\ last'.target = <<3, last'.origin[2]>>
            /\ board[<<2, last'.origin[2]>>] = Empty
            /\ board[last'.target] = Empty )
          => ( /\ last'.ok
               /\ board'[last'.origin] = Empty
               /\ board'[last'.target] = Sq("Pawn", "White")
               /\ to_play' = "Black" )
       /\ ( /\ last.op = "move" /\ last.ok /\ last.player = "White"
            /\ last'.op = "move"
            /\ InRange(last'.origin) /\ InRange(last'.target)
            /\ last'.origin # last'.target
            /\ board[last'.origin].color = "White" )
          => last'.err = "DoesNotOwnOriginPiece"]_vars

\* C9: a move that passes the other checks and would leave the mover's own
\* king attacked is rejected with KingLeftInCheck, and after every successful
\* move the side that has just moved is not in check.
CexNoSelfCheck ==
    [][last'.op = "move" =>
        /\ ( /\ PseudoLegal(board, to_play, last'.origin, last'.target)
             /\ InCheck(move_unchecked(board, last'.origin, last'.target).board,
                        to_play) )
           => (~last'.ok /\ last'.err = "KingLeftInCheck")
        /\ last'.ok => ~InCheck(board', to_play)]_vars

\* C10: try_castle fails with PathBlocked, and leaves the board unchanged,
\* whenever a square strictly between the king and the castling rook is
\* occupied, even if the right is held (as in the standard initial position).
CexCastleNeedsEmptyPath ==
    [][( /\ last'.op = "castle"
         /\ \E x \in CastlePath(to_play, last'.side) : board[x] # Empty )
        => ( /\ ~last'.ok
             /\ board' = board
             /\ (can_castle(Pos, last'.side).ok => last'.err = "PathBlocked") )]_vars

----
(* Vocabulary of the castling and game-state properties *)

\* Chess rule: some piece of colour `by` attacks the square x
Attacked(b, x, by) ==
    \E p \in Coords : b[p].color = by /\ Attacks(b, p, x)

\* The squares the king stands on or crosses when try_castle moves it
KingTransit(color, side) ==
    LET row == first_row_y(color)
        dir == IF side = "King" THEN -1 ELSE 1
    IN  {<<row, KingX>>, <<row, KingX + dir>>, <<row, KingX + 2 * dir>>}

\* Chess rule: the colour may castle on that side
LegalCastle(b, color, rights, side) ==
    /\ IF side = "King" THEN rights.king ELSE rights.queen
    /\ AtHome(b, color, side)
    /\ \A x \in CastlePath(color, side) : b[x] = Empty
    /\ \A x \in KingTransit(color, side) : ~Attacked(b, x, Opposite(color))

\* Chess rule: the colour has a move that does not leave its king attacked
HasLegalMove(b, color, rights) ==
    \/ \E o \in Coords : /\ b[o].color = color
                         /\ \E t \in Coords :
                               /\ PseudoLegal(b, color, o, t)
                               /\ ~InCheck(move_unchecked(b, o, t).board, color)
    \/ \E s \in CastleSides : LegalCastle(b, color, rights, s)

\* The state the side to move is in, by the rules: Checkmate and Stalemate
\* are those of the side to move
ExpectedState ==
    IF HasLegalMove(board, to_play, castle_rights[1]) THEN "Playing"
    ELSE IF InCheck(board, to_play) THEN "Checkmate"
    ELSE "Stalemate"

\* C11: try_castle never succeeds while a square of the king's transit path,
\* its start and destination included, is attacked by an enemy piece; it
\* fails with KingInCheck or PathAttacked.
CexNoCastleThroughCheck ==
    [][( /\ last'.op = "castle"
         /\ \E x \in KingTransit(to_play, last'.side) :
               Attacked(board, x, Opposite(to_play)) )
        => ( /\ ~last'.ok
             /\ (can_castle(Pos, last'.side).ok
                    => last'.err \in {"KingInCheck", "PathAttacked"}) )]_vars

\* C12: after a successful move or castle the state is Checkmate of the new
\* side to move when it is in check without a legal move, Stalemate when it
\* is not in check without a legal move, and Playing otherwise.
CexStateRecomputed ==
    Succeeded => state = ExpectedState

----
(* position.rs: attack generators *)

\* increment_coord: the first component of the increment goes to the file
increment_coord(coord, increment) ==
    <<wrapping_add_signed(rank(coord), increment[2]),
      wrapping_add_signed(file(coord), increment[1])>>

\* the take_while of iter_path from `coord` on; enemy_found is the flag the
\* closure keeps between squares
RECURSIVE iter_path_from(_, _, _, _, _)
iter_path_from(b, plr, coord, increment, enemy_found) ==
    IF ~InRange(coord) THEN <<>>
    ELSE IF b[coord] = Empty
         THEN <<coord>> \o iter_path_from(b, plr, path_step(coord, increment),
                                          increment, enemy_found)
    ELSE IF b[coord].color = plr
         THEN IF ~enemy_found
              THEN <<coord>> \o iter_path_from(b, plr,
                                    path_step(coord, increment), increment, TRUE)
              ELSE <<>>
    ELSE <<>>

\* iter_path: the path iterator without its first element, the origin
iter_path(b, plr, coord, increment) ==
    IF ~InRange(coord) THEN <<>>
    ELSE iter_path_from(b, plr, path_step(coord, increment), increment, FALSE)

BishopIncrements == << <<1, 1>>, <<1, -1>>, <<-1, 1>>, <<-1, -1>> >>
RookIncrements == << <<1, 0>>, <<-1, 0>>, <<0, 1>>, <<0, -1>> >>

RECURSIVE chain_paths(_, _, _, _)
chain_paths(b, plr, coord, increments) ==
    IF increments = <<>> THEN <<>>
    ELSE iter_path(b, plr, coord, Head(increments))
            \o chain_paths(b, plr, coord, Tail(increments))

\* the targets the closures of queen_moves, bishop_moves and rook_moves chain
\* for the piece on origin_coord
queen_paths(b, origin_coord) ==
    chain_paths(b, player(b[origin_coord]), origin_coord,
                BishopIncrements \o RookIncrements)
bishop_paths(b, origin_coord) ==
    chain_paths(b, player(b[origin_coord]), origin_coord, BishopIncrements)
rook_paths(b, origin_coord) ==
    chain_paths(b, player(b[origin_coord]), origin_coord, RookIncrements)

\* file.flat_map(|i| rank.map(|j| (i, j)))
Combinations(fileSeq, rankSeq) ==
    [k \in 1 .. (Len(fileSeq) * Len(rankSeq)) |->
        <<fileSeq[((k - 1) \div Len(rankSeq)) + 1],
          rankSeq[((k - 1) % Len(rankSeq)) + 1]>>]

\* filter_map over the increments: the targets that are on the board
RECURSIVE paths_of(_, _)
paths_of(origin_coord, combinations) ==
    IF combinations = <<>> THEN <<>>
    ELSE LET target_coord == increment_coord(origin_coord, Head(combinations))
         IN  (IF InRange(target_coord) THEN <<target_coord>> ELSE <<>>)
                \o paths_of(origin_coord, Tail(combinations))

KeepsIncrement(increment) == increment[1] # 0 /\ increment[2] # 0

\* the closure of king_moves: -1..=1 both ways, filtered by i != 0 && j != 0
king_paths(origin_coord) ==
    paths_of(origin_coord,
             SelectSeq(Combinations(<<-1, 0, 1>>, <<-1, 0, 1>>), KeepsIncrement))

\* the closure of knight_moves: (-2..=1).chain(1..=2) both ways
knight_paths(origin_coord) ==
    paths_of(origin_coord,
             Combinations(<<-2, -1, 0, 1, 1, 2>>, <<-2, -1, 0, 1, 1, 2>>))

----
(* The generators and is_path_clear applied to one piece on a board with   *)
(* up to three other pieces                                                *)

SlidingPieces == {"Rook", "Bishop", "Queen"}
SubjectPieces == SlidingPieces \cup {"King", "Knight"}
BlockerSquares == {<<3, 3>>, <<3, 5>>, <<5, 5>>}
BlockerContents == {Empty, Sq("Pawn", "White"), Sq("Pawn", "Black")}

\* Rows and columns a rook, bishop or queen is put on
SlidingLines == {0, 1, 3, 5, 7}

PlacedBoard(s, k, f) ==
    [c \in Coords |-> IF c = s THEN Sq(k, "White")
                      ELSE IF c \in BlockerSquares THEN f[c]
                      ELSE Empty]

GenBoards ==
    {PlacedBoard(s, k, f) :
        s \in SlidingLines \X SlidingLines, k \in SlidingPieces,
        f \in [BlockerSquares -> BlockerContents]}
    \cup
    {PlacedBoard(s, k, [c \in BlockerSquares |-> Empty]) :
        s \in Coords, k \in {"King", "Knight"}}

InitGen ==
    /\ board \in GenBoards
    /\ to_play = "White"
    /\ castle_rights = <<Rights(FALSE, FALSE), Rights(FALSE, FALSE)>>
    /\ state = "Playing"
    /\ last = NoOp

Straight(o, t) == o # t /\ (o[1] = t[1] \/ o[2] = t[2])
Diagonal(o, t) == o # t /\ abs(t[1] - o[1]) = abs(t[2] - o[2])

\* Chess rule: the shape of a rook, bishop or queen move
SlidingShape(piece, o, t) ==
    CASE piece = "Rook" -> Straight(o, t)
      [] piece = "Bishop" -> Diagonal(o, t)
      [] piece = "Queen" -> Straight(o, t) \/ Diagonal(o, t)
      [] OTHER -> FALSE

Generated(op, origin_coord, out) ==
    /\ last' = [op |-> op, origin |-> origin_coord, target |-> <<0, 0>>,
                out |-> out]
    /\ UNCHANGED <<board, to_play, castle_rights, state>>

SlidingMoves(origin_coord) ==
    /\ piece_kind(board[origin_coord]) \in SlidingPieces
    /\ Generated("sliding", origin_coord,
          CASE piece_kind(board[origin_coord]) = "Queen" ->
                    queen_paths(board, origin_coord)
            [] piece_kind(board[origin_coord]) = "Bishop" ->
                    bishop_paths(board, origin_coord)
            [] piece_kind(board[origin_coord]) = "Rook" ->
                    rook_paths(board, origin_coord))

KingMoves(origin_coord) ==
    /\ piece_kind(board[origin_coord]) = "King"
    /\ Generated("king", origin_coord, king_paths(origin_coord))

KnightMoves(origin_coord) ==
    /\ piece_kind(board[origin_coord]) = "Knight"
    /\ Generated("knight", origin_coord, knight_paths(origin_coord))

IsPathClear(origin_coord, target_coord) ==
    /\ SlidingShape(piece_kind(board[origin_coord]), origin_coord, target_coord)
    /\ last' = [op |-> "is_path_clear", origin |-> origin_coord,
                target |-> target_coord,
                out |-> is_path_clear(board, origin_coord, target_coord)]
    /\ UNCHANGED <<board, to_play, castle_rights, state>>

\* The squares holding the piece the generators are applied to
Subjects == {c \in Coords : piece_kind(board[c]) \in SubjectPieces}

NextGen ==
    \/ \E o \in Subjects : SlidingMoves(o)
    \/ \E o \in Subjects : KingMoves(o)
    \/ \E o \in Subjects : KnightMoves(o)
    \/ \E o \in Subjects, t \in Coords : IsPathClear(o, t)

SpecGen == InitGen /\ [][NextGen]_vars

----
(* Properties of the generators *)

SeqRange(q) == {q[i] : i \in 1 .. Len(q)}
NoRepeat(q) == \A i, j \in 1 .. Len(q) : q[i] = q[j] => i = j

\* The squares of the ray from c by d up to and including the first occupied
RayUpToFirstOccupied(b, c, d) ==
    {x \in Coords :
        \E i \in 1 .. (BoardSize - 1) :
            /\ x = <<c[1] + i * d[1], c[2] + i * d[2]>>
            /\ \A j \in 1 .. (i - 1) :
                  b[<<c[1] + j * d[1], c[2] + j * d[2]>>] = Empty}

IncrementsOf(piece) ==
    CASE piece = "Rook" -> SeqRange(RookIncrements)
      [] piece = "Bishop" -> SeqRange(BishopIncrements)
      [] piece = "Queen" -> SeqRange(RookIncrements) \cup SeqRange(BishopIncrements)

\* C13: along each direction of a rook, bishop or queen the generated squares
\* are exactly the empty squares up to the first occupied square and that
\* square itself, own or enemy; nothing beyond it is generated.
CexRayStopsAtFirstOccupied ==
    last.op = "sliding" =>
        SeqRange(last.out) =
            UNION {RayUpToFirstOccupied(board, last.origin, d) :
                      d \in IncrementsOf(piece_kind(board[last.origin]))}

KingOffsets == {d \in (-1 .. 1) \X (-1 .. 1) : d # <<0, 0>>}
KnightOffsets == {d \in (-2 .. 2) \X (-2 .. 2) : abs(d[1]) * abs(d[2]) = 2}
OffsetSquares(c, offsets) ==
    {x \in Coords : \E d \in offsets : x = <<c[1] + d[1], c[2] + d[2]>>}

\* C14: king_moves yields exactly the in-range squares among the 8
\* neighbours of the king, knight_moves exactly the in-range squares at the
\* 8 knight offsets, each at most once.
CexJumpTargets ==
    /\ last.op = "king" =>
          /\ SeqRange(last.out) = OffsetSquares(last.origin, KingOffsets)
          /\ NoRepeat(last.out)
    /\ last.op = "knight" =>
          /\ SeqRange(last.out) = OffsetSquares(last.origin, KnightOffsets)
          /\ NoRepeat(last.out)

----
(* board.rs: the whole-board iterator, one call of next per step *)

\* BoardIter::next: the coordinate stored for the following call
board_iter_step(current) ==
    <<(current[1] + (current[2] \div BoardSize)) % U8,
      ((current[2] + 1) % U8) % BoardSize>>

\* BoardIter::next on the iterator state `it`: None ends the iteration
board_iter_next(b, it) ==
    IF ~square(b, it.coord).some
    THEN [it EXCEPT !.done = TRUE]
    ELSE [it EXCEPT !.coord = board_iter_step(it.coord),
                    !.yielded = Append(it.yielded, it.coord)]

\* Board::iter
Iter(origin_coord) ==
    /\ last = NoOp
    /\ last' = [op |-> "iter", origin |-> origin_coord, target |-> <<0, 0>>,
                coord |-> origin_coord, yielded |-> <<>>, done |-> FALSE]
    /\ UNCHANGED <<board, to_play, castle_rights, state>>

BoardIterNext ==
    /\ last.op = "iter"
    /\ ~last.done
    /\ Len(last.yielded) < MaxYield
    /\ last' = board_iter_next(board, last)
    /\ UNCHANGED <<board, to_play, castle_rights, state>>

NextIter ==
    \/ \E o \in (0 .. MaxIndex) \X (0 .. MaxIndex) : Iter(o)
    \/ BoardIterNext

SpecIter == Init /\ [][NextIter]_vars

\* C15: the board iterator started at (0,0) yields the 64 coordinates once
\* each in row-major order and then ends.
CexIterRowMajor ==
    (last.op = "iter" /\ last.origin = <<0, 0>>) =>
        /\ \A i \in 1 .. Len(last.yielded) :
              last.yielded[i] = <<(i - 1) \div BoardSize, (i - 1) % BoardSize>>
        /\ last.done => Len(last.yielded) = BoardSize * BoardSize

----
(* position.rs: PositionBuilder *)

None == [some |-> FALSE, val |-> <<0, 0>>]
Some(v) == [some |-> TRUE, val |-> v]

\* The coordinates a board iterator yields from `coord` on, up to its end or
\* to the first coordinate it yields a second time
RECURSIVE visited_from(_, _)
visited_from(coord, seen) ==
    IF ~InRange(coord) \/ coord \in seen THEN seen
    ELSE visited_from(board_iter_step(coord), seen \cup {coord})

\* The iterator from `coord` comes back to a coordinate it has yielded:
\* a consumer that needs its end never returns
RECURSIVE endless_from(_, _)
endless_from(coord, seen) ==
    IF ~InRange(coord) THEN FALSE
    ELSE IF coord \in seen THEN TRUE
    ELSE endless_from(board_iter_step(coord), seen \cup {coord})

\* board.iter() of position.rs: the iterator from Coord::default()
IterOrigin == <<0, 0>>

ValidOk(kings) == [returns |-> TRUE, ok |-> TRUE, err |-> "None", kings |-> kings]
ValidErr(e) == [returns |-> TRUE, ok |-> FALSE, err |-> e, kings |-> <<None, None>>]
NoReturn == [returns |-> FALSE, ok |-> FALSE, err |-> "None", kings |-> <<None, None>>]

abs_diff(a, b) == IF a >= b THEN a - b ELSE b - a

\* lines 225-233, on the coordinates of the White and the Black king
kings_too_close(k0, k1) ==
    LET dx == abs_diff(file(k1), file(k0))
        dy == abs_diff(rank(k1), file(k1))
    IN  dx <= 1 \/ dy <= 1

\* the MoveAndAttack targets all_moves yields for the piece on origin_coord
attack_targets(b, origin_coord) ==
    LET sq == b[origin_coord]
        direction == pawn_direction(player(sq))
    IN  CASE piece_kind(sq) = "Queen" -> queen_paths(b, origin_coord)
          [] piece_kind(sq) = "Knight" -> knight_paths(origin_coord)
          [] piece_kind(sq) = "Bishop" -> bishop_paths(b, origin_coord)
          [] piece_kind(sq) = "King" -> king_paths(origin_coord)
          [] piece_kind(sq) = "Rook" -> rook_paths(b, origin_coord)
          [] piece_kind(sq) = "Pawn" ->
                paths_of(origin_coord, << <<direction, -1>>, <<direction, 1>> >>)
          [] OTHER -> <<>>

\* lines 237-258: a colour is flagged when one of its pieces has a
\* MoveAndAttack target on the square of either king
check_test(b, k0, k1, color) ==
    \E c \in visited_from(IterOrigin, {}) :
        /\ player(b[c]) = color
        /\ \E t \in {attack_targets(b, c)[i] :
                        i \in 1 .. Len(attack_targets(b, c))} : t = k0 \/ t = k1

\* lines 208-264: is_valid once the loop over the kings has ended
is_valid_tail(b, kings) ==
    LET k0 == kings[1].val
        k1 == kings[2].val
        pawn_seen == \E c \in visited_from(IterOrigin, {}) :
                        rank(c) \in {0, 7} /\ piece_kind(b[c]) = "Pawn"
    IN  IF ~kings[1].some \/ ~kings[2].some THEN ValidErr("InvalidAmountOfKings")
        ELSE IF pawn_seen THEN ValidErr("PawnsOnFirstRank")
        ELSE IF endless_from(IterOrigin, {}) THEN NoReturn
        ELSE IF kings_too_close(k0, k1) THEN ValidErr("KingsTooClose")
        ELSE IF check_test(b, k0, k1, "White") /\ check_test(b, k0, k1, "Black")
             THEN ValidErr("BothPlayersHaveChecks")
        ELSE ValidOk(kings)

\* one turn of the loop of lines 197-206 on the run record `run`
king_scan_step(b, run) ==
    LET sq == b[run.coord]
        slot == IF player(sq) = "White" THEN 1 ELSE 2
    IN  IF ~square(b, run.coord).some
        THEN [run EXCEPT !.done = TRUE, !.valid = is_valid_tail(b, run.kings)]
        ELSE IF piece_kind(sq) # "King"
             THEN [run EXCEPT !.coord = board_iter_step(run.coord)]
        ELSE IF run.kings[slot].some
             THEN [run EXCEPT !.done = TRUE,
                              !.valid = ValidErr("InvalidAmountOfKings")]
        ELSE [run EXCEPT !.coord = board_iter_step(run.coord),
                         !.kings[slot] = Some(run.coord)]

\* try_build: the error of is_valid, else Err(InvalidAmountOfKings)
try_build(valid) ==
    IF ~valid.returns THEN [returns |-> FALSE, ok |-> FALSE, err |-> "None"]
    ELSE IF ~valid.ok THEN [returns |-> TRUE, ok |-> FALSE, err |-> valid.err]
    ELSE [returns |-> TRUE, ok |-> FALSE, err |-> "InvalidAmountOfKings"]

----
(* try_build on a builder holding `board` and `to_play`, one turn of the   *)
(* king loop per step                                                      *)

KingSquares == {<<0, 4>>, <<0, 5>>, <<1, 4>>, <<3, 3>>, <<7, 4>>}

KingsBoard(wk, bk) ==
    [c \in Coords |-> IF c = wk THEN Sq("King", "White")
                      ELSE IF c = bk THEN Sq("King", "Black")
                      ELSE Empty]

\* each king attacked along its row by an enemy rook
BothCheckedBoard ==
    [KingsBoard(<<0, 4>>, <<7, 4>>) EXCEPT ![<<0, 0>>] = Sq("Rook", "Black"),
                                          ![<<7, 0>>] = Sq("Rook", "White")]

TwoWhiteKingsBoard ==
    [KingsBoard(<<0, 4>>, <<7, 4>>) EXCEPT ![<<3, 3>>] = Sq("King", "White")]

BuilderBoards ==
    InitBoards
    \cup {KingsBoard(k[1], k[2]) :
            k \in {q \in KingSquares \X KingSquares : q[1] # q[2]}}
    \cup {BothCheckedBoard, TwoWhiteKingsBoard}

InitBuild ==
    /\ board \in BuilderBoards
    /\ to_play \in Colors
    /\ castle_rights = <<Rights(FALSE, FALSE), Rights(FALSE, FALSE)>>
    /\ state = "Playing"
    /\ last = NoOp

TryBuild ==
    /\ last = NoOp
    /\ last' = [op |-> "try_build", origin |-> IterOrigin, target |-> <<0, 0>>,
                coord |-> IterOrigin, kings |-> <<None, None>>, done |-> FALSE,
                valid |-> NoReturn]
    /\ UNCHANGED <<board, to_play, castle_rights, state>>

KingScanStep ==
    /\ last.op = "try_build"
    /\ ~last.done
    /\ last' = king_scan_step(board, last)
    /\ UNCHANGED <<board, to_play, castle_rights, state>>

NextBuild == TryBuild \/ KingScanStep

SpecBuild == InitBuild /\ [][NextBuild]_vars

----
(* Properties of the builder *)

Built == last.op = "try_build" /\ last.done

OneKingEach(b) == \A c \in Colors : Cardinality(Kings(b, c)) = 1
NoBackRankPawn(b) ==
    \A c \in Coords : c[1] \in {0, 7} => b[c].piece # "Pawn"
\* Chebyshev distance of the two kings at most 1
KingsAdjacent(b) ==
    \E w \in Kings(b, "White"), k \in Kings(b, "Black") :
        Max(abs(w[1] - k[1]), abs(w[2] - k[2])) <= 1
BothInCheck(b) == InCheck(b, "White") /\ InCheck(b, "Black")

\* C16: for a board and side to move that pass validation, try_build
\* returns a Position, not an error.
CexBuildSucceeds ==
    ( /\ Built
      /\ OneKingEach(board) /\ NoBackRankPawn(board)
      /\ ~KingsAdjacent(board) /\ ~BothInCheck(board) )
    => try_build(last.valid).ok

\* C17: for a board with one king per colour and no pawn on rows 0 and 7,
\* is_valid returns KingsTooClose if and only if the Chebyshev distance of
\* the kings is at most 1.
CexKingsTooClose ==
    (Built /\ OneKingEach(board) /\ NoBackRankPawn(board))
    => (last.valid.err = "KingsTooClose" <=> KingsAdjacent(board))

\* C18: is_valid returns InvalidAmountOfKings if and only if the board has
\* no king or more than one king of some colour, before any other check.
CexKingCount ==
    Built => (last.valid.err = "InvalidAmountOfKings" <=> ~OneKingEach(board))

\* C19: for a board that passes the king-count, pawn and king-distance
\* checks, is_valid returns BothPlayersHaveChecks if and only if each king
\* is attacked by at least one piece of the other colour.
CexBothInCheck ==
    ( /\ Built
      /\ OneKingEach(board) /\ NoBackRankPawn(board) /\ ~KingsAdjacent(board) )
    => (last.valid.err = "BothPlayersHaveChecks" <=> BothInCheck(board))

----
(* board.rs: the path iterator, one call of next per step *)

I8Min == -128
I8Max == 127

\* BoardPathIter::next on the iterator state `it`: None ends the iteration
board_path_iter_next(b, it) ==
    IF ~square(b, it.coord).some
    THEN [it EXCEPT !.done = TRUE]
    ELSE [it EXCEPT !.coord = path_step(it.coord, it.increment),
                    !.yielded = Append(it.yielded, it.coord)]

\* Board::iter_path
IterPath(origin_coord, increment) ==
    /\ last = NoOp
    /\ last' = [op |-> "iter_path", origin |-> origin_coord,
                target |-> <<0, 0>>, increment |-> increment,
                coord |-> origin_coord, yielded |-> <<>>, done |-> FALSE]
    /\ UNCHANGED <<board, to_play, castle_rights, state>>

BoardPathIterNext ==
    /\ last.op = "iter_path"
    /\ ~last.done
    /\ Len(last.yielded) < MaxYield
    /\ last' = board_path_iter_next(board, last)
    /\ UNCHANGED <<board, to_play, castle_rights, state>>

StepValues == (-MaxStep .. MaxStep) \cup {I8Min, I8Max}

InitPath ==
    /\ board \in InitBoards
    /\ to_play = "White"
    /\ castle_rights = <<Rights(FALSE, FALSE), Rights(FALSE, FALSE)>>
    /\ state = "Playing"
    /\ last = NoOp

NextPath ==
    \/ \E o \in Coords, d \in StepValues \X StepValues : IterPath(o, d)
    \/ BoardPathIterNext

SpecPath == InitPath /\ [][NextPath]_vars

\* C21: for an in-range origin and a non-zero step the path iterator yields
\* the origin first, then only in-range coordinates, each the previous one
\* plus the step, ends at the first coordinate that leaves 0..7 in either
\* axis, and yields at most 8 elements.
ThmPathStaysOnBoard ==
    (last.op = "iter_path" /\ last.increment # <<0, 0>>) =>
        LET y == last.yielded
            plus(c) == <<c[1] + last.increment[1], c[2] + last.increment[2]>>
        IN  /\ Len(y) >= 1 => y[1] = last.origin
            /\ \A i \in 1 .. Len(y) : InRange(y[i])
            /\ \A i \in 2 .. Len(y) : y[i] = plus(y[i - 1])
            /\ Len(y) <= BoardSize
            /\ last.done => (Len(y) >= 1 /\ ~InRange(plus(y[Len(y)])))

WitPathLeavesBelowZero ==
    /\ last.op = "iter_path" /\ last.done
    /\ last.increment = <<-1, -1>>
    /\ last.origin = <<7, 7>>
    /\ Len(last.yielded) = BoardSize

----
(* board.rs: the raw move, applied once to an input board *)

\* Board::move_unchecked
MoveUnchecked(origin_coord, target_coord) ==
    /\ last = NoOp
    /\ LET moved == move_unchecked(board, origin_coord, target_coord)
       IN  /\ board' = moved.board
           /\ last' = [op |-> "move_unchecked", origin |-> origin_coord,
                       target |-> target_coord,
                       origin_square |-> moved.origin_square,
                       target_square |-> moved.target_square]
    /\ UNCHANGED <<to_play, castle_rights, state>>

NextRaw == \E o \in Coords, t \in Coords : MoveUnchecked(o, t)

SpecRaw == InitPath /\ [][NextRaw]_vars

\* C22: for any in-range origin and destination, equal ones included,
\* move_unchecked returns (content of origin before, content of destination
\* before); when the two squares differ the origin is Empty afterwards and
\* the destination holds the origin's prior content; every other square is
\* unchanged.
CexRawMoveEffect ==
    [][last'.op = "move_unchecked" =>
        LET o == last'.origin
            t == last'.target
        IN  /\ last'.origin_square = board[o]
            /\ last'.target_square = board[t]
            /\ o # t => (board'[o] = Empty /\ board'[t] = board[o])
            /\ \A c \in Coords \ {o, t} : board'[c] = board[c]]_vars

----
(* Position invariants over the castling rights *)

HoldsRight(color, side) ==
    IF side = "King" THEN RightsOf(color).king ELSE RightsOf(color).queen

\* C23: in every reachable position, a colour that still holds the castling
\* right for a side has its king on column 4 of its home row and a rook of
\* its own on the corner square try_castle moves for that side.
CexRightsImplyHome ==
    \A color \in Colors, side \in CastleSides :
        HoldsRight(color, side) => AtHome(board, color, side)

\* the rights `after` are the rights `before` with flags cleared at most
AtMost(after, before) ==
    /\ after.king => before.king
    /\ after.queen => before.queen

\* C24: the first slot of the rights pair is always that of the side to move:
\* a step that hands the turn over puts the opponent's rights, unchanged, in
\* the first slot and the mover's rights, with flags cleared at most, in the
\* second; a step that keeps the side to move keeps both slots.
ThmSlotTracksSideToMove ==
    [][IF to_play' # to_play
       THEN /\ castle_rights'[1] = castle_rights[2]
            /\ AtMost(castle_rights'[2], castle_rights[1])
       ELSE castle_rights' = castle_rights]_vars

WitMoverRightsInSecondSlot ==
    /\ last.op = "castle" /\ last.ok /\ last.side = "Queen"
    /\ to_play = Opposite(last.player)
    /\ castle_rights[2].queen
    /\ ~castle_rights[1].queen

----
(* position.rs: the deltas of move_shape, under both overflow settings *)

\* `(a - b) as i8` on u8 operands: with overflow checks (the default of a
\* debug build) a - b panics when a < b; without them it wraps
sub_u8_as_i8(a, b, overflow_checks) ==
    IF overflow_checks /\ a < b
    THEN [panics |-> TRUE, val |-> 0]
    ELSE [panics |-> FALSE, val |-> sub_as_i8(a, b)]

\* move_shape, lines 291-294: dy is evaluated first, then dx
shape_deltas(origin_coord, target_coord, overflow_checks) ==
    LET dy == sub_u8_as_i8(file(target_coord), file(origin_coord),
                           overflow_checks)
        dx == sub_u8_as_i8(rank(target_coord), rank(origin_coord),
                           overflow_checks)
    IN  [panics |-> dy.panics \/ dx.panics, dy |-> dy.val, dx |-> dx.val]

ShapeDeltas(origin_coord, target_coord, overflow_checks) ==
    /\ last = NoOp
    /\ LET d == shape_deltas(origin_coord, target_coord, overflow_checks)
       IN  last' = [op |-> "move_shape", origin |-> origin_coord,
                    target |-> target_coord,
                    overflow_checks |-> overflow_checks,
                    panics |-> d.panics, dy |-> d.dy, dx |-> d.dx]
    /\ UNCHANGED <<board, to_play, castle_rights, state>>

NextShape ==
    \E o \in Coords, t \in Coords, checks \in BOOLEAN : ShapeDeltas(o, t, checks)

SpecShape == InitPath /\ [][NextShape]_vars

\* C25: for every in-range origin and destination, a destination with a
\* smaller row or column included, the deltas of move_shape are the signed
\* differences target - origin of each axis, within -7..7, and the
\* subtraction does not fail.
CexShapeDeltasExact ==
    last.op = "move_shape" =>
        /\ ~last.panics
        /\ last.dy = file(last.target) - file(last.origin)
        /\ last.dx = rank(last.target) - rank(last.origin)
        /\ last.dy \in -7 .. 7
        /\ last.dx \in -7 .. 7

====
